---- MODULE Spec2Model ----
(***************************************************************************)
(* LSCP (Locally Selective Combination in Parallel), the ensemble of       *)
(* examples/temp_do_not_use_lscp.py: construction, fit, decision_function, *)
(* the local region finder and the competent detector selector.            *)
(*                                                                         *)
(* Floating point values are fixed point integers: the float v is the      *)
(* integer v * SCALE, divisions round towards minus infinity, and NaN is   *)
(* a value of its own.  Matrices are sequences of rows, rows and training  *)
(* indices are 1-based (index i here is index i - 1 of the code).          *)
(***************************************************************************)
EXTENDS Integers, Sequences, FiniteSets, Bags, TLC

VARIABLES self, np_random, ret, args

vars == <<self, np_random, ret, args>>

(* Fixed point unit: the float 1.0 *)
SCALE == 10

(* numpy.nan *)
NaN == -1000000

(***************************************************************************)
(* Arithmetic helpers                                                      *)
(***************************************************************************)
Range(s) == {s[i] : i \in DOMAIN s}

(* a function on 1..n as a sequence with its values computed *)
Array(f) == f \o <<>>

RECURSIVE SumBetween(_, _, _)
SumBetween(f, lo, hi) ==
    IF lo > hi THEN 0
    ELSE IF lo = hi THEN f[lo]
    ELSE LET mid == (lo + hi) \div 2
         IN SumBetween(f, lo, mid) + SumBetween(f, mid + 1, hi)

(* f[1] + ... + f[n] *)
SumFn(f, n) == SumBetween(f, 1, n)

RECURSIVE SqrtBetween(_, _, _)
SqrtBetween(v, lo, hi) ==
    IF lo >= hi THEN lo
    ELSE LET mid == (lo + hi + 1) \div 2
         IN IF mid * mid <= v THEN SqrtBetween(v, mid, hi)
            ELSE SqrtBetween(v, lo, mid - 1)

(* floor(sqrt(v)), v < 2^30 *)
ISqrt(v) == SqrtBetween(v, 0, 32767)

MinOf(S) == CHOOSE x \in S : \A y \in S : x <= y
MaxOf(S) == CHOOSE x \in S : \A y \in S : x >= y

Rows(M) == Len(M)
Cols(M) == Len(M[1])
Column(M, c) == Array([i \in 1..Len(M) |-> M[i][c]])

(***************************************************************************)
(* pyod.utils.utility.standardizer: column-wise zero mean and unit         *)
(* variance (population variance); a zero-variance column becomes zero.    *)
(***************************************************************************)
StandardizeColumn(col) ==
    LET n == Len(col)
        s == SumFn(col, n)
        q == SumFn([i \in 1..n |-> col[i] * col[i]], n)
        v == n * q - s * s
        (* sd = n * std, at ten times the resolution *)
        sd == ISqrt(v * 100)
    IN Array([i \in 1..n |-> IF v = 0 THEN 0
                             ELSE ((n * col[i] - s) * SCALE * 10) \div sd])

(* the matrix whose columns are cols *)
FromColumns(cols, n) ==
    Array([i \in 1..n |-> Array([c \in 1..Len(cols) |-> cols[c][i]])])

standardizer(M) ==
    FromColumns(Array([c \in 1..Cols(M) |-> StandardizeColumn(Column(M, c))]),
                Rows(M))

(***************************************************************************)
(* numpy RandomState, as a small linear congruential stream.  A handle is  *)
(* [global |-> TRUE] for the process-wide singleton numpy.random, whose    *)
(* state every draw advances, or a fresh private stream seeded by an int.  *)
(***************************************************************************)
RandomStates == 0..12

RandomState(seed) == seed % 13

RngNext(s) == (s * 6 + 5) % 13

(* a check_random_state that hands out the singleton whatever it is given  *)
check_random_state_singleton(random_state, singleton) ==
    [global |-> TRUE, state |-> singleton]

(* sklearn.utils.check_random_state: None is the singleton, an int seeds a *)
(* new RandomState                                                         *)
check_random_state(random_state, singleton) ==
    IF random_state.kind = "None"
    THEN [global |-> TRUE, state |-> singleton]
    ELSE [global |-> FALSE, state |-> RandomState(random_state.seed)]

(* RandomState.randint(low, high): one draw from [low, high); the code's   *)
(* callers pass low < high                                                 *)
randint(rs, low, high) ==
    LET s == RngNext(rs.state)
    IN [value |-> low + (s % (high - low)), rs |-> [rs EXCEPT !.state = s]]

RECURSIVE SampleFrom(_, _, _, _)
SampleFrom(rs, pool, n_samples, acc) ==
    IF n_samples = 0 THEN [value |-> acc, rs |-> rs]
    ELSE LET s == RngNext(rs.state)
             p == 1 + (s % Len(pool))
             rest == SubSeq(pool, 1, p - 1) \o SubSeq(pool, p + 1, Len(pool))
         IN SampleFrom([rs EXCEPT !.state = s], rest, n_samples - 1,
                       Append(acc, pool[p]))

(* sklearn.utils.random.sample_without_replacement: n_samples distinct     *)
(* indices of the population                                               *)
sample_without_replacement(n_population, n_samples, rs) ==
    SampleFrom(rs, [i \in 1..n_population |-> i], n_samples, <<>>)

RECURSIVE RandintArray(_, _, _, _)
RandintArray(rs, n_population, n_samples, acc) ==
    IF n_samples = 0 THEN [value |-> acc, rs |-> rs]
    ELSE LET one == randint(rs, 0, n_population)
         IN RandintArray(one.rs, n_population, n_samples - 1,
                         Append(acc, one.value + 1))

_generate_indices(rs, bootstrap, n_population, n_samples) ==
    IF bootstrap
    THEN RandintArray(rs, n_population, n_samples, <<>>)
    ELSE sample_without_replacement(n_population, n_samples, rs)

(* a draw of feature indices that leaves random_state out and draws from   *)
(* numpy.random                                                            *)
generate_bagging_indices_unseeded(random_state, singleton, n_features, min_features, max_features) ==
    LET random_n_features ==
            randint([global |-> TRUE, state |-> singleton], min_features,
                    max_features)
    IN _generate_indices(random_n_features.rs, FALSE, n_features,
                         random_n_features.value)

generate_bagging_indices(random_state, singleton, n_features, min_features, max_features) ==
    LET rs == check_random_state(random_state, singleton)
        random_n_features == randint(rs, min_features, max_features)
    IN _generate_indices(random_n_features.rs, FALSE, n_features,
                         random_n_features.value)

(***************************************************************************)
(* sklearn.neighbors.KDTree over the selected feature columns: query gives *)
(* the k nearest training rows of one test row, nearest first (equal       *)
(* distances in index order).                                              *)
(***************************************************************************)
SqDist(a, b, features) ==
    SumFn([p \in 1..Len(features) |->
              (a[features[p]] - b[features[p]]) * (a[features[p]] - b[features[p]])],
          Len(features))

AscendingSeq(S, n) == SelectSeq([i \in 1..n |-> i], LAMBDA i : i \in S)

(* the rows in the order of the distances dvals, the nearer half of the    *)
(* distances before the farther half                                       *)
RECURSIVE NearestFirst(_, _, _)
NearestFirst(dist, dvals, n) ==
    IF dvals = {} THEN <<>>
    ELSE IF MinOf(dvals) = MaxOf(dvals)
    THEN AscendingSeq({i \in 1..n : dist[i] = MinOf(dvals)}, n)
    ELSE NearestFirst(dist, {d \in dvals : 2 * d <= MinOf(dvals) + MaxOf(dvals)}, n)
           \o NearestFirst(dist, {d \in dvals : 2 * d > MinOf(dvals) + MaxOf(dvals)}, n)

NearestRows(X_train, row, features, k) ==
    LET n == Len(X_train)
        dist == Array([i \in 1..n |-> SqDist(X_train[i], row, features)])
    IN SubSeq(NearestFirst(dist, Range(dist), n), 1, k)

(* tree = KDTree(X_train[:, features]); tree.query(X_test[:, features], k) *)
KDTree_query(X_train, X_test, features, k) ==
    Array([j \in 1..Rows(X_test) |-> NearestRows(X_train, X_test[j], features, k)])

(***************************************************************************)
(* pyod.utils.stat_models.pearsonr: the correlation of two vectors, in     *)
(* [-1, 1]; undefined (NaN) when a vector is constant or shorter than 2.   *)
(***************************************************************************)
pearsonr(x, y) ==
    LET n == Len(x)
        sx == SumFn(x, n)
        sy == SumFn(y, n)
        vx == n * SumFn([i \in 1..n |-> x[i] * x[i]], n) - sx * sx
        vy == n * SumFn([i \in 1..n |-> y[i] * y[i]], n) - sy * sy
        cov == n * SumFn([i \in 1..n |-> x[i] * y[i]], n) - sx * sy
        r == (cov * SCALE) \div (ISqrt(vx) * ISqrt(vy))
    IN IF n < 2 \/ vx = 0 \/ vy = 0 THEN NaN
       ELSE IF r > SCALE THEN SCALE
       ELSE IF r < -SCALE THEN -SCALE
       ELSE r

(***************************************************************************)
(* numpy.histogram(scores, bins): equal-width bins over [min, max], the    *)
(* range widened by 0.5 on both sides when min = max; the last bin holds   *)
(* its right edge.  Edge j is lo + j * (hi - lo) / bins; comparisons with  *)
(* an edge are made exactly, by cross multiplication.  A NaN among the     *)
(* scores makes the range not finite, and numpy raises ValueError.         *)
(***************************************************************************)
HistLo(scores) ==
    IF MinOf(Range(scores)) = MaxOf(Range(scores))
    THEN MinOf(Range(scores)) - SCALE \div 2
    ELSE MinOf(Range(scores))

HistHi(scores) ==
    IF MinOf(Range(scores)) = MaxOf(Range(scores))
    THEN MaxOf(Range(scores)) + SCALE \div 2
    ELSE MaxOf(Range(scores))

(* scores[d] > bin_edges[j]: a left edge that shuts its own value out *)
AboveEdge(x, j, lo, hi, bins) == (x - lo) * bins > j * (hi - lo)

(* scores[d] >= bin_edges[j] *)
AtLeastEdge(x, j, lo, hi, bins) == (x - lo) * bins >= j * (hi - lo)

(* scores[d] <= bin_edges[j] *)
AtMostEdge(x, j, lo, hi, bins) == (x - lo) * bins <= j * (hi - lo)

BinOf(x, lo, hi, bins) ==
    IF x = hi THEN bins ELSE 1 + ((x - lo) * bins) \div (hi - lo)

histogram(scores, bins) ==
    LET lo == HistLo(scores)
        hi == HistHi(scores)
    IN [b \in 1..bins |->
           Cardinality({d \in DOMAIN scores : BinOf(scores[d], lo, hi, bins) = b})]

(***************************************************************************)
(* pyod.utils.utility.argmaxn(hist, n): the indices of the n largest       *)
(* counts, a tie going to the lower index.                                 *)
(***************************************************************************)
RECURSIVE argmaxn(_, _)
argmaxn(hist, n) ==
    IF n = 0 \/ DOMAIN hist = {} THEN <<>>
    ELSE LET top == MaxOf({hist[b] : b \in DOMAIN hist})
             b0 == MinOf({b \in DOMAIN hist : hist[b] = top})
         IN <<b0>> \o argmaxn([b \in DOMAIN hist \ {b0} |-> hist[b]], n - 1)

(***************************************************************************)
(* Base detectors.  The ensemble only calls fit and predict on them; they  *)
(* are rule detectors here, labelling a standardized row 1 (outlier) or 0. *)
(***************************************************************************)
Abs(x) == IF x < 0 THEN -x ELSE x

estimator_predict(estimator, X) ==
    Array([i \in 1..Rows(X) |->
        CASE estimator = "far1" -> IF 2 * Abs(X[i][1]) > SCALE THEN 1 ELSE 0
          [] estimator = "pos2" -> IF 2 * X[i][Cols(X)] > SCALE THEN 1 ELSE 0
          [] estimator = "neg1" -> IF X[i][1] < 0 THEN 1 ELSE 0
          [] OTHER -> 0])

(* the score matrix of the loop over the estimators: column k holds the    *)
(* predictions of estimator k                                              *)
PredictAll(estimator_list, X) ==
    FromColumns(Array([k \in 1..Len(estimator_list) |->
                          estimator_predict(estimator_list[k], X)]),
                Rows(X))

(***************************************************************************)
(* LSCP.__init__                                                           *)
(***************************************************************************)
LSCP(estimator_list, n_iterations, local_region_size, n_bins, random_state) ==
    [estimator_list |-> estimator_list,
     n_clf |-> Len(estimator_list),
     n_iterations |-> n_iterations,
     local_region_size |-> local_region_size,
     local_region_min |-> 30,
     local_region_max |-> 100,
     local_max_features |-> SCALE,
     local_min_features |-> SCALE \div 2,
     local_region_iterations |-> 20,
     local_region_threshold |-> 20 \div 2,
     n_bins |-> IF n_bins >= Len(estimator_list) THEN Len(estimator_list)
                ELSE n_bins,
     n_selected |-> 1,
     random_state |-> random_state,
     fitted |-> FALSE,
     n_features_ |-> 0,
     X_train_norm_ |-> <<>>,
     train_scores_norm_ |-> <<>>,
     training_pseudo_label_ |-> <<>>]

(***************************************************************************)
(* LSCP.fit                                                                *)
(***************************************************************************)
Fitted(obj, X, train_scores_norm) ==
    [obj EXCEPT !.fitted = TRUE,
                !.n_features_ = Cols(X),
                !.train_scores_norm_ = train_scores_norm,
                !.training_pseudo_label_ =
                    Array([i \in 1..Rows(X) |->
                              MaxOf(Range(train_scores_norm[i]))])]

FitEstimators(obj, X, X_train_norm) ==
    Fitted([obj EXCEPT !.X_train_norm_ = X_train_norm], X,
           standardizer(PredictAll(obj.estimator_list, X_train_norm)))

fit(obj, X) == FitEstimators(obj, X, standardizer(X))

(***************************************************************************)
(* LSCP._get_local_region                                                  *)
(***************************************************************************)
(* collections.Counter(list): the number of occurrences of every item; a   *)
(* list without repetition counts every item once                          *)
RECURSIVE Counter(_)
Counter(list) ==
    IF Cardinality(Range(list)) = Len(list) THEN SetToBag(Range(list))
    ELSE Counter(SubSeq(list, 1, Len(list) \div 2))
           (+) Counter(SubSeq(list, Len(list) \div 2 + 1, Len(list)))

KeysAfter(first, rest) == first \o SelectSeq(rest, LAMBDA item : item \notin Range(first))

(* the keys of a Counter, in the order of first occurrence *)
RECURSIVE CounterKeys(_)
CounterKeys(list) ==
    IF Cardinality(Range(list)) = Len(list) THEN list
    ELSE KeysAfter(CounterKeys(SubSeq(list, 1, Len(list) \div 2)),
                   CounterKeys(SubSeq(list, Len(list) \div 2 + 1, Len(list))))

(* a filter that also keeps a count equal to the threshold *)
KeepFrom(keys, counts, threshold) ==
    SelectSeq(keys, LAMBDA item : counts[item] >= threshold)

KeepAbove(keys, counts, threshold) ==
    SelectSeq(keys, LAMBDA item : counts[item] > threshold)

(* [item for item, count in Counter(grid_j).items() if count > threshold] *)
ConsensusFilter(grid_j, threshold) ==
    KeepAbove(CounterKeys(grid_j), Counter(grid_j), threshold)

(* the trees built in the passes so far, with their answers: a pass that   *)
(* draws the features of an earlier pass builds the same tree and gets the *)
(* same answer                                                             *)
TreeAnswer(obj, X_test_norm, features, same) ==
    IF same # <<>> THEN same[1].ind_arr
    ELSE KDTree_query(obj.X_train_norm_, X_test_norm, features,
                      obj.local_region_size)

Remember(built, features, ind_arr) ==
    IF \E p \in DOMAIN built : built[p].features = features THEN built
    ELSE Append(built, [features |-> features, ind_arr |-> ind_arr])

Accumulate(grid, ind_arr) ==
    Array([j \in DOMAIN grid |-> grid[j] \o ind_arr[j]])

(* one pass of the loop, from the drawn features on.  done is the loop's   *)
(* state after the passes before it: the grid, the number of passes made,  *)
(* the state of numpy.random, the trees built, and the exception raised    *)
RegionPassQuery(done, singleton, features, ind_arr) ==
    [raised |-> "",
     grid |-> Accumulate(done.grid, ind_arr),
     passes |-> done.passes + 1,
     np_random |-> singleton,
     built |-> Remember(done.built, features, ind_arr)]

RegionPass(obj, X_test_norm, done, drawn) ==
    IF drawn.value = <<>> \/ obj.local_region_size > Rows(obj.X_train_norm_)
    THEN (* KDTree refuses an empty feature set and a k beyond the number
            of training rows *)
         [done EXCEPT !.raised = "ValueError",
                      !.np_random = IF drawn.rs.global THEN drawn.rs.state ELSE @]
    ELSE IF \E p \in DOMAIN drawn.value : drawn.value[p] > Cols(X_test_norm)
    THEN [done EXCEPT !.raised = "IndexError",
                      !.np_random = IF drawn.rs.global THEN drawn.rs.state ELSE @]
    ELSE RegionPassQuery(
             done,
             IF drawn.rs.global THEN drawn.rs.state ELSE done.np_random,
             drawn.value,
             TreeAnswer(obj, X_test_norm, drawn.value,
                        SelectSeq(done.built, LAMBDA b : b.features = drawn.value)))

(* a pass is made only if no pass before it raised *)
RegionPassAfter(obj, X_test_norm, done) ==
    IF done.raised # "" THEN done
    ELSE RegionPass(obj, X_test_norm, done,
                    generate_bagging_indices(
                        obj.random_state, done.np_random, Cols(obj.X_train_norm_),
                        (Cols(obj.X_train_norm_) * obj.local_min_features) \div SCALE,
                        Cols(obj.X_train_norm_)))

(* the passes first, ..., last - 1 of the loop, in order: the earlier half *)
(* of them, then the later half from where the earlier half ended          *)
RECURSIVE RegionPasses(_, _, _, _, _)
RegionPasses(obj, X_test_norm, first, last, done) ==
    IF last <= first THEN done
    ELSE IF last = first + 1 THEN RegionPassAfter(obj, X_test_norm, done)
    ELSE RegionPasses(obj, X_test_norm, (first + last) \div 2, last,
                      RegionPasses(obj, X_test_norm, first, (first + last) \div 2,
                                   done))

FilterGrid(obj, done) ==
    [raised |-> done.raised,
     passes |-> done.passes,
     np_random |-> done.np_random,
     grid |-> done.grid,
     grid_f |-> IF done.raised # "" THEN <<>>
                ELSE Array([j \in DOMAIN done.grid |->
                               ConsensusFilter(done.grid[j],
                                               obj.local_region_threshold)])]

_get_local_region(obj, X_test_norm, singleton) ==
    FilterGrid(obj, RegionPasses(obj, X_test_norm, 0, obj.local_region_iterations,
                                 [raised |-> "",
                                  grid |-> [j \in 1..Rows(X_test_norm) |-> <<>>],
                                  passes |-> 0,
                                  np_random |-> singleton,
                                  built |-> <<>>]))

(***************************************************************************)
(* LSCP._get_competent_detectors                                           *)
(***************************************************************************)
InBin(scores, max_bin, lo, hi, bins) ==
    AscendingSeq({d \in DOMAIN scores :
                     /\ AtLeastEdge(scores[d], max_bin - 1, lo, hi, bins)
                     /\ AtMostEdge(scores[d], max_bin, lo, hi, bins)},
                 Len(scores))

RECURSIVE Candidates(_, _, _)
Candidates(scores, bins, max_bins) ==
    IF max_bins = <<>> THEN <<>>
    ELSE InBin(scores, Head(max_bins), HistLo(scores), HistHi(scores), bins)
           \o Candidates(scores, bins, Tail(max_bins))

_get_competent_detectors(obj, scores) ==
    IF \E d \in DOMAIN scores : scores[d] = NaN
    THEN [raised |-> "ValueError", candidates |-> <<>>]
    ELSE [raised |-> "",
          candidates |-> Candidates(scores, obj.n_bins,
                                    argmaxn(histogram(scores, obj.n_bins),
                                            obj.n_selected))]

(***************************************************************************)
(* LSCP.decision_function.  The value is the object after the call,        *)
(* numpy.random's state after it, and what the call gave: the exception    *)
(* raised ("" for none), the scores returned, and the locals of the call.  *)
(***************************************************************************)
NoCall ==
    [call |-> "", X |-> <<>>, raised |-> "", scores |-> <<>>, region_size |-> 0,
     passes |-> 0, grid |-> <<>>, ind_arr |-> <<>>,
     pearson_corr_scores |-> <<>>, competent |-> <<>>]

(* a check against X.shape[0], the number of rows *)
RowCountDiffers(obj, X) == obj.n_features_ # Rows(X)

(* self.n_features_ != X.shape[1] *)
FeatureCountDiffers(obj, X) == obj.n_features_ # Cols(X)

(* the two assignments that bring local_region_size within limits: min     *)
(* with local_region_min, then max with local_region_max                   *)
LimitRegionSize(obj) ==
    IF (IF obj.local_region_size <= obj.local_region_min
        THEN obj.local_region_size ELSE obj.local_region_min)
          >= obj.local_region_max
    THEN (IF obj.local_region_size <= obj.local_region_min
          THEN obj.local_region_size ELSE obj.local_region_min)
    ELSE obj.local_region_max

Gather(vector, ind_k) == Array([p \in 1..Len(ind_k) |-> vector[ind_k[p]]])

Mean(values) == SumFn(values, Len(values)) \div Len(values)

(* the rows i, i + 1, ... of the scoring loop; it ends at the first row    *)
(* that raises                                                             *)
RECURSIVE ScoreRows(_, _, _, _, _)

ScoreRow(obj, ind_arr, test_scores_norm, i, acc, chosen) ==
    IF chosen.raised # ""
    THEN [acc EXCEPT !.raised = chosen.raised, !.scores = <<>>,
                     !.competent = Append(@, chosen.candidates)]
    ELSE ScoreRows(obj, ind_arr, test_scores_norm, i + 1,
             [acc EXCEPT !.competent = Append(@, chosen.candidates),
                         !.scores = Append(@, Mean(Gather(test_scores_norm[i],
                                                          chosen.candidates)))])

CorrelateRow(obj, ind_arr, test_scores_norm, i, acc, pearson_corr_scores) ==
    ScoreRow(obj, ind_arr, test_scores_norm, i,
             [acc EXCEPT !.pearson_corr_scores = Append(@, pearson_corr_scores)],
             _get_competent_detectors(obj, pearson_corr_scores))

LocalCorrelations(obj, ind_k, local_pseudo_ground_truth) ==
    Array([d \in 1..obj.n_clf |->
              pearsonr(local_pseudo_ground_truth,
                       Gather(Column(obj.train_scores_norm_, d), ind_k))])

ScoreRows(obj, ind_arr, test_scores_norm, i, acc) ==
    IF i > Len(ind_arr) THEN acc
    ELSE CorrelateRow(obj, ind_arr, test_scores_norm, i, acc,
             LocalCorrelations(obj, ind_arr[i],
                               Gather(obj.training_pseudo_label_, ind_arr[i])))

Called(X) == [NoCall EXCEPT !.call = "decision_function", !.X = X]

Reached(obj, X, region) ==
    [Called(X) EXCEPT !.region_size = obj.local_region_size,
                      !.passes = region.passes,
                      !.grid = region.grid,
                      !.ind_arr = region.grid_f]

(* from the loop over the estimators to the return *)
ScoreRegions(obj, X, X_test_norm, region) ==
    IF region.raised # ""
    THEN [obj |-> obj, np_random |-> region.np_random,
          ret |-> [Reached(obj, X, region) EXCEPT !.raised = region.raised]]
    ELSE [obj |-> obj, np_random |-> region.np_random,
          ret |-> ScoreRows(obj, region.grid_f,
                            standardizer(PredictAll(obj.estimator_list,
                                                    X_test_norm)),
                            1, Reached(obj, X, region))]

(* from the standardized test data on *)
LocateAndScore(obj, X, X_test_norm, singleton) ==
    ScoreRegions(obj, X, X_test_norm,
                 _get_local_region(obj, X_test_norm, singleton))

decision_function(obj, X, singleton) ==
    IF ~obj.fitted
    THEN [obj |-> obj, np_random |-> singleton,
          ret |-> [Called(X) EXCEPT !.raised = "NotFittedError"]]
    ELSE IF FeatureCountDiffers(obj, X)
    THEN [obj |-> obj, np_random |-> singleton,
          ret |-> [Called(X) EXCEPT !.raised = "ValueError: n_features"]]
    ELSE LocateAndScore([obj EXCEPT !.local_region_size = LimitRegionSize(obj)],
                        X, standardizer(X), singleton)

(***************************************************************************)
(* Inputs                                                                  *)
(***************************************************************************)
Sign(b) == IF b THEN 1 ELSE -1

(* 200 rows, 2 features: rows 1..100 lie near the mean of feature 1 and    *)
(* far from the mean of feature 2, rows 101..200 the other way round       *)
TrainWide ==
    [i \in 1..200 |->
        <<Sign(i % 2 = 1) * (IF i <= 100 THEN 1 ELSE 7),
          Sign((i \div 2) % 2 = 0) * (IF i <= 100 THEN 7 ELSE 1)>>]

(* 100 rows, 3 features *)
TrainCube == [i \in 1..100 |-> <<i % 5, i % 3, i % 7>>]

(* fewer rows than any region size *)
TrainFew == <<<<0, 0>>, <<2, 1>>, <<4, 3>>, <<6, 8>>>>

(* a single feature *)
TrainLine == <<<<1>>, <<2>>, <<4>>, <<9>>>>

TrainingMatrices == {TrainWide, TrainCube, TrainFew, TrainLine}

(* the largest number of rows of a test matrix with 2 features *)
MaxTestRows == 2

TestRows == <<<<3, 4>>, <<0, 0>>, <<4, 8>>, <<1, 9>>>>

TestMatrices ==
    {SubSeq(TestRows, 1, m) : m \in 1..MaxTestRows}
    \cup {<<<<1, 2, 3>>>>, <<<<1, 2, 3>>, <<4, 0, 9>>>>, <<<<5>>, <<6>>>>}

EstimatorLists ==
    {<<"far1", "pos2">>, <<"far1", "pos2", "neg1">>, <<"pos2", "quiet">>}

Seed(n) == [kind |-> "int", seed |-> n]
None == [kind |-> "None", seed |-> 0]

(* the default arguments, with every estimator list and random_state, and  *)
(* each other argument varied in turn                                      *)
DefaultArgs ==
    [estimator_list |-> <<"far1", "pos2">>, n_iterations |-> 20,
     local_region_size |-> 30, n_bins |-> 10, random_state |-> Seed(42)]

ConstructorArgs ==
    {[DefaultArgs EXCEPT !.estimator_list = e, !.random_state = s] :
        e \in EstimatorLists, s \in {Seed(42), Seed(0), None}}
    \cup {[DefaultArgs EXCEPT !.n_iterations = 10]}
    \cup {[DefaultArgs EXCEPT !.local_region_size = k] : k \in {20, 60, 100, 120}}
    \cup {[DefaultArgs EXCEPT !.estimator_list = e, !.n_bins = b] :
            e \in EstimatorLists, b \in {1, 2}}

Runs == {1, 2}

Construct(a) ==
    LSCP(a.estimator_list, a.n_iterations, a.local_region_size, a.n_bins,
         a.random_state)

(***************************************************************************)
(* The state: self[r] is the ensemble object of run r, np_random[r] the    *)
(* state of numpy.random in the process of run r, ret[r] the outcome of    *)
(* the latest call on the object, and args[r] the arguments the object was *)
(* constructed with (init) and the matrix of its latest fit (X).           *)
(***************************************************************************)
InitWith(a, singletons) ==
    /\ args = [r \in Runs |-> [init |-> a, X |-> <<>>]]
    /\ self = [r \in Runs |-> Construct(a)]
    /\ np_random = singletons
    /\ ret = [r \in Runs |-> NoCall]

Init ==
    \E a \in ConstructorArgs :
        \E s \in (IF a.random_state = None THEN {0, 1} ELSE {0}) :
            InitWith(a, [r \in Runs |-> s])

Fit(r, X) ==
    /\ self' = [self EXCEPT ![r] = fit(self[r], X)]
    /\ ret' = [ret EXCEPT ![r] = [NoCall EXCEPT !.call = "fit", !.X = X]]
    /\ args' = [args EXCEPT ![r].X = X]
    /\ UNCHANGED np_random

(* the call has returned or raised: out is what decision_function gave *)
Returned(r, out) ==
    /\ self' = [self EXCEPT ![r] = out.obj]
    /\ np_random' = [np_random EXCEPT ![r] = out.np_random]
    /\ ret' = [ret EXCEPT ![r] = out.ret]
    /\ UNCHANGED args

DecisionFunction(r, X) ==
    Returned(r, decision_function(self[r], X, np_random[r]))

Next ==
    \/ \E X \in TrainingMatrices : Fit(1, X)
    \/ \E X \in TestMatrices : DecisionFunction(1, X)

Spec == Init /\ [][Next]_vars

(***************************************************************************)
(* Two independent runs, each in a process of its own: an object is        *)
(* constructed from the same arguments in both, fitted once and then       *)
(* asked for scores once.                                                  *)
(***************************************************************************)
InitRuns ==
    \E a \in {[DefaultArgs EXCEPT !.estimator_list = e, !.random_state = s] :
                 e \in {<<"far1", "pos2">>, <<"far1", "pos2", "neg1">>},
                 s \in {Seed(42), Seed(0), None}} :
        \E s \in {0, 1} : InitWith(a, <<s, 1>>)

FitRun(r, X) == ret[r].call = "" /\ Fit(r, X)

DecisionFunctionRun(r, X) == ret[r].call = "fit" /\ DecisionFunction(r, X)

NextRuns ==
    \E r \in Runs :
        \/ \E X \in {TrainWide, TrainCube, TrainFew} : FitRun(r, X)
        \/ \E X \in TestMatrices : DecisionFunctionRun(r, X)

SpecRuns == InitRuns /\ [][NextRuns]_vars

(***************************************************************************)
(* The competent detector selector on its own, applied to correlation      *)
(* vectors of an object with n_clf detectors and n_bins bins.              *)
(***************************************************************************)
Correlations == {-SCALE, -4, 0, 3, SCALE, NaN}

InitSelector ==
    \E a \in {[DefaultArgs EXCEPT !.estimator_list = e, !.n_bins = b] :
                 e \in EstimatorLists, b \in 1..4} :
        InitWith(a, [r \in Runs |-> 0])

GetCompetentDetectors(r, scores) ==
    \E chosen \in {_get_competent_detectors(self[r], scores)} :
        /\ ret' = [ret EXCEPT ![r] =
                      [NoCall EXCEPT !.call = "_get_competent_detectors",
                                     !.raised = chosen.raised,
                                     !.pearson_corr_scores = <<scores>>,
                                     !.competent = <<chosen.candidates>>]]
        /\ UNCHANGED <<self, np_random, args>>

NextSelector ==
    \E scores \in [1..self[1].n_clf -> Correlations] :
        GetCompetentDetectors(1, scores)

SpecSelector == InitSelector /\ [][NextSelector]_vars

(***************************************************************************)
(* Properties                                                              *)
(***************************************************************************)
(* the call got past the fitted check and the feature count check *)
Queried(r) ==
    /\ ret[r].call = "decision_function"
    /\ ret[r].raised \notin {"NotFittedError", "ValueError: n_features"}

(* the region finder made all its passes and gave a region for every row *)
Located(r) == Queried(r) /\ Len(ret[r].ind_arr) = Rows(ret[r].X)

(* the training indices that pass t of the region finder returned for the  *)
(* test row j, for every pass t                                            *)
PassNeighbours(r, j) ==
    Array([t \in 1..ret[r].passes |->
              Range(SubSeq(ret[r].grid[j], (t - 1) * ret[r].region_size + 1,
                           t * ret[r].region_size))])

NoRepeat(list) == Cardinality(Range(list)) = Len(list)

Clamp(x, lo, hi) == IF x < lo THEN lo ELSE IF x > hi THEN hi ELSE x

Configuration(obj) ==
    <<obj.local_region_size, obj.local_region_min, obj.local_region_max,
      obj.local_region_iterations, obj.local_region_threshold, obj.n_bins,
      obj.n_selected, obj.random_state>>

TrainingSet(obj) ==
    <<obj.X_train_norm_, obj.train_scores_norm_, obj.training_pseudo_label_,
      obj.n_features_>>

(* C1: with an integer seed, two independent runs of fit followed by        *)
(* decision_function on the same detector list, configuration, training    *)
(* matrix and test matrix give the same outcome: the same neighbours in    *)
(* every pass, the same local regions and the same output vector.          *)
C1_SameSeedSameScores ==
    (/\ self[1].random_state.kind = "int"
     /\ ret[1].call = "decision_function"
     /\ ret[2].call = "decision_function"
     /\ args[1] = args[2]
     /\ ret[1].X = ret[2].X)
    => /\ ret[1].grid = ret[2].grid
       /\ ret[1].ind_arr = ret[2].ind_arr
       /\ ret[1].raised = ret[2].raised
       /\ ret[1].scores = ret[2].scores

(* C1's case: both runs returned a score for each of two test rows, the    *)
(* scores are not all alike, and numpy.random stood differently in the     *)
(* two processes                                                           *)
C1_Witness ==
    /\ self[1].random_state.kind = "int"
    /\ args[1] = args[2]
    /\ ret[1].X = ret[2].X
    /\ \A r \in Runs : /\ ret[r].call = "decision_function"
                       /\ ret[r].raised = ""
                       /\ Len(ret[r].scores) = 2
                       /\ ret[r].scores[1] # ret[r].scores[2]
    /\ np_random[1] # np_random[2]

(* C2: once fit has recorded d features, a decision_function call with a   *)
(* matrix of another feature count raises the feature count ValueError     *)
(* and returns no scores, whatever calls came before.                      *)
C2_MismatchRaises ==
    \A r \in Runs :
        (/\ ret[r].call = "decision_function"
         /\ self[r].fitted
         /\ Cols(ret[r].X) # self[r].n_features_)
        => /\ ret[r].raised = "ValueError: n_features"
           /\ ret[r].scores = <<>>

(* C2's case: a mismatched call on an object that has answered a matching  *)
(* call before (its local_region_size is past the limits' assignment)      *)
C2_Witness ==
    \E r \in Runs :
        /\ ret[r].call = "decision_function"
        /\ self[r].fitted
        /\ Cols(ret[r].X) # self[r].n_features_
        /\ ret[r].raised = "ValueError: n_features"
        /\ self[r].local_region_size # args[r].init.local_region_size

(* C3: the region size of the nearest neighbour query is the configured    *)
(* local_region_size clamped into [local_region_min, local_region_max]:    *)
(* never above the maximum, never below the minimum, and the configured    *)
(* value itself when that lies within the limits.                          *)
C3_RegionSizeClamped ==
    \A r \in Runs :
        Located(r) =>
            ret[r].region_size =
                Clamp(args[r].init.local_region_size,
                      self[r].local_region_min, self[r].local_region_max)

(* C4: the region finder makes as many passes as the n_iterations given    *)
(* at construction, and the consensus threshold is that number of passes   *)
(* integer-divided by 2.                                                   *)
C4_PassesAreNIterations ==
    \A r \in Runs :
        Located(r) =>
            /\ ret[r].passes = args[r].init.n_iterations
            /\ self[r].local_region_threshold = ret[r].passes \div 2

(* C5: after all passes, the local region of a test row is exactly the     *)
(* set of training indices that more passes than the consensus threshold   *)
(* returned for the row; it holds no index twice; and when every pass      *)
(* returned the same neighbours, the region is that set of neighbours.     *)
C5_RegionIsConsensus ==
    \A r \in Runs :
        Located(r) =>
            \A j \in DOMAIN ret[r].ind_arr :
                LET neighbours == PassNeighbours(r, j)
                IN /\ Range(ret[r].ind_arr[j]) =
                        {i \in 1..Rows(self[r].X_train_norm_) :
                            Cardinality({t \in 1..ret[r].passes :
                                            i \in neighbours[t]})
                              > self[r].local_region_threshold}
                   /\ NoRepeat(ret[r].ind_arr[j])
                   /\ (\A t \in 1..ret[r].passes :
                           neighbours[t] = neighbours[1])
                      => Range(ret[r].ind_arr[j]) = neighbours[1]

(* C5's case: the passes disagreed on the neighbours of a row, and the     *)
(* filter kept some of them and dropped others                             *)
C5_Witness ==
    \E r \in Runs :
        /\ Located(r)
        /\ \E j \in DOMAIN ret[r].ind_arr :
              /\ ret[r].ind_arr[j] # <<>>
              /\ Range(ret[r].ind_arr[j]) # Range(ret[r].grid[j])

(* C6: a test row whose local region is empty or has fewer than 2 indices  *)
(* does not make the call raise: the row takes every detector, with the    *)
(* mean of all the detectors' scores, and every row of the batch gets its  *)
(* score.                                                                  *)
C6_SmallRegionScored ==
    \A r \in Runs :
        (Located(r) /\ \E j \in DOMAIN ret[r].ind_arr : Len(ret[r].ind_arr[j]) < 2)
        => /\ ret[r].raised = ""
           /\ Len(ret[r].scores) = Rows(ret[r].X)
           /\ \A j \in DOMAIN ret[r].ind_arr :
                 Len(ret[r].ind_arr[j]) < 2 =>
                     ret[r].competent[j] = [d \in 1..self[r].n_clf |-> d]

(* C7: where a detector's scores or the pseudo labels are constant within  *)
(* a region of 2 or more indices, the competence is 0: no NaN is handed to *)
(* the selector, and the call returns a score for every row.               *)
C7_NoNaNToSelector ==
    \A r \in Runs :
        (Located(r) /\ \A j \in DOMAIN ret[r].ind_arr : Len(ret[r].ind_arr[j]) >= 2)
        => /\ \A i \in DOMAIN ret[r].pearson_corr_scores :
                 \A d \in DOMAIN ret[r].pearson_corr_scores[i] :
                     ret[r].pearson_corr_scores[i][d] # NaN
           /\ ret[r].raised = ""
           /\ Len(ret[r].scores) = Rows(ret[r].X)

(* C8: given a correlation vector of length n_clf whose entries are one    *)
(* and the same number, the selector returns every detector, for every     *)
(* effective n_bins in 1..n_clf.                                           *)
C8_EqualScoresSelectAll ==
    \A r \in Runs :
        (/\ ret[r].call = "_get_competent_detectors"
         /\ \A d \in DOMAIN ret[r].pearson_corr_scores[1] :
               /\ ret[r].pearson_corr_scores[1][d] # NaN
               /\ ret[r].pearson_corr_scores[1][d] = ret[r].pearson_corr_scores[1][1])
        => /\ ret[r].raised = ""
           /\ ret[r].competent[1] = [d \in 1..self[r].n_clf |-> d]

(* C8's case: three detectors with one and the same correlation, which     *)
(* lies on an inner edge of the 2 bins                                     *)
C8_Witness ==
    \E r \in Runs :
        /\ ret[r].call = "_get_competent_detectors"
        /\ self[r].n_clf = 3
        /\ self[r].n_bins = 2
        /\ ret[r].pearson_corr_scores[1] = <<3, 3, 3>>
        /\ ret[r].competent[1] = <<1, 2, 3>>

(* C9: a decision_function call, whether it returns or raises, leaves the  *)
(* configuration and the training set of the object as they were before    *)
(* the call.                                                               *)
C9_DecisionFunctionReadOnly ==
    [][\A r \in Runs :
          ret'[r].call = "decision_function" =>
              /\ Configuration(self'[r]) = Configuration(self[r])
              /\ TrainingSet(self'[r]) = TrainingSet(self[r])]_vars

(* C10: with an integer seed every pass draws the same features and so     *)
(* returns the same neighbours; every returned index is in every pass,     *)
(* and the local region of each test row holds exactly local_region_size   *)
(* distinct training indices (local_region_size as it stands at the        *)
(* query).                                                                 *)
C10_SeededRegionFull ==
    \A r \in Runs :
        (Located(r) /\ self[r].random_state.kind = "int") =>
            \A j \in DOMAIN ret[r].ind_arr :
                LET neighbours == PassNeighbours(r, j)
                IN /\ \A t \in 1..ret[r].passes : neighbours[t] = neighbours[1]
                   /\ Len(ret[r].ind_arr[j]) = self[r].local_region_size
                   /\ NoRepeat(ret[r].ind_arr[j])
                   /\ Range(ret[r].ind_arr[j])
                        \subseteq 1..Rows(self[r].X_train_norm_)

(* C10's case: a seeded object located the regions of two test rows among  *)
(* more training rows than a region takes                                  *)
C10_Witness ==
    \E r \in Runs :
        /\ Located(r)
        /\ self[r].random_state.kind = "int"
        /\ Rows(ret[r].X) = 2
        /\ Rows(self[r].X_train_norm_) > self[r].local_region_size
        /\ ret[r].passes = self[r].local_region_iterations

====
